---- MODULE Spec2Model ----
(***************************************************************************)
(* The elevator dispatch core (src/elevator.py, class ElevatorLogic) and   *)
(* the simulator that drives it (src/test_elevator.py, class Elevator).    *)
(***************************************************************************)
EXTENDS Integers, Sequences, FiniteSets

\* ------------------------------------------------------------ constants
UP == 1
DOWN == 2
FLOOR_COUNT == 6
\* Python's None: no direction, no destination.
NONE == 0

\* for i in range(100) in Elevator.run_until_floor
RunLimit == 100

\* Largest number of pending requests (over the three sets) kept by Spec and
\* LiveSpec, and by EventSpec, which also logs the arguments of every event.
MaxPending == 3
MaxLogged == 2
\* Largest number of requests made before the request universe is closed.
MaxOpen == 2

Floors == 1..FLOOR_COUNT
Directions == {UP, DOWN}
\* What a caller may pass to on_called as its direction: UP, DOWN, None or
\* another integer.
AnyDirection == {UP, DOWN, NONE, UP + DOWN}

VARIABLES
    current_floor,            \* Elevator._current_floor
    motor_direction,          \* Elevator._motor_direction
    directionality,           \* ElevatorLogic.directionality
    requested_destinations,   \* ElevatorLogic.requested_destinations
    requests_going_up,        \* ElevatorLogic.requests_going_up
    requests_going_down,      \* ElevatorLogic.requests_going_down
    raised,                   \* exception that escaped the last call
    visited_floors,           \* Elevator._visited_floors
    last_stop,                \* history: the floor of the latest stop
    arrived,                  \* history: the direction of travel in which the
                              \* car came to a stop, until the next on_ready
    last,                     \* history: the latest event and its arguments
    test,                     \* the test method that drives the elevator
    pc,                       \* position in the test's command list
    iter,                     \* iterations made by run_until_floor
    closed                    \* no request is made any more

vars == <<current_floor, motor_direction, directionality, requested_destinations,
          requests_going_up, requests_going_down, raised, visited_floors,
          last_stop, arrived, last, test, pc, iter, closed>>

\* ------------------------------------------------------------ helpers
Min(S) == CHOOSE x \in S : \A y \in S : x <= y
Max(S) == CHOOSE x \in S : \A y \in S : y <= x

\* The elevator and its logic delegate as one value.
Elevator ==
    [current_floor |-> current_floor,
     motor_direction |-> motor_direction,
     directionality |-> directionality,
     requested_destinations |-> requested_destinations,
     requests_going_up |-> requests_going_up,
     requests_going_down |-> requests_going_down,
     raised |-> "none"]

\* floors_up without the comparison: the floors below count as well.
floors_up_any(current, floors) == floors

floors_up(current, floors) == {f \in floors : current <= f}

floors_down(current, floors) == {f \in floors : f <= current}

floor_distance(current, floor) ==
    IF current >= floor THEN current - floor ELSE floor - current

\* min(stops, key=floor_distance): the first floor of minimal distance in the
\* iteration order of an unordered set; tie names which of two equidistant
\* floors the iteration meets first.
nearest(current, stops, tie) ==
    LET best == {f \in stops : \A g \in stops :
                    floor_distance(current, f) <= floor_distance(current, g)}
    IN IF tie = UP THEN Max(best) ELSE Min(best)

\* The comparisons of _direction_to the wrong way round.
_direction_to_reversed(current, floor) ==
    IF current < floor THEN DOWN
    ELSE IF floor < current THEN UP
    ELSE NONE

_direction_to(current, floor) ==
    IF current < floor THEN UP
    ELSE IF floor < current THEN DOWN
    ELSE NONE

\* _current_destination stopping for the calls of both directions on the way.
_current_destination_with_calls(e, tie) ==
    LET c == e.current_floor
        calls == e.requests_going_up \cup e.requests_going_down
    IN
    IF e.directionality = NONE THEN
        LET stops == e.requested_destinations \cup calls
        IN IF stops # {} THEN nearest(c, stops, tie) ELSE NONE
    ELSE IF e.directionality = UP THEN
        LET stops_up == floors_up(c, e.requested_destinations \cup calls)
        IN IF stops_up # {} THEN Min(stops_up) ELSE NONE
    ELSE
        LET stops_down == floors_down(c, e.requested_destinations \cup calls)
        IN IF stops_down # {} THEN Max(stops_down) ELSE NONE

\* _current_destination heading for the farthest stop ahead, not the closest.
_current_destination_farthest(e, tie) ==
    LET c == e.current_floor IN
    IF e.directionality = NONE THEN
        LET stops == e.requested_destinations \cup e.requests_going_up
                        \cup e.requests_going_down
        IN IF stops # {} THEN nearest(c, stops, tie) ELSE NONE
    ELSE IF e.directionality = UP THEN
        LET stops_up == floors_up(c, e.requested_destinations \cup e.requests_going_up)
            returns_down == floors_up(c, e.requests_going_down)
        IN IF stops_up # {} THEN Max(stops_up)
           ELSE IF returns_down # {} THEN Max(returns_down)
           ELSE NONE
    ELSE
        LET stops_down == floors_down(c, e.requested_destinations \cup e.requests_going_down)
            returns_up == floors_down(c, e.requests_going_up)
        IN IF stops_down # {} THEN Min(stops_down)
           ELSE IF returns_up # {} THEN Min(returns_up)
           ELSE NONE

\* _current_destination with the calls in the direction of travel left to the
\* turn-back, so that only selections are stops on the way.
_current_destination_selections_only(e, tie) ==
    LET c == e.current_floor
        calls == e.requests_going_up \cup e.requests_going_down
    IN
    IF e.directionality = NONE THEN
        LET stops == e.requested_destinations \cup calls
        IN IF stops # {} THEN nearest(c, stops, tie) ELSE NONE
    ELSE IF e.directionality = UP THEN
        LET stops_up == floors_up(c, e.requested_destinations)
            returns_down == floors_up(c, calls)
        IN IF stops_up # {} THEN Min(stops_up)
           ELSE IF returns_down # {} THEN Max(returns_down)
           ELSE NONE
    ELSE
        LET stops_down == floors_down(c, e.requested_destinations)
            returns_up == floors_down(c, calls)
        IN IF stops_down # {} THEN Max(stops_down)
           ELSE IF returns_up # {} THEN Min(returns_up)
           ELSE NONE

\* _current_destination without the turn-back: the calls against the direction
\* of travel are never a destination.
_current_destination_no_return(e, tie) ==
    LET c == e.current_floor IN
    IF e.directionality = NONE THEN
        LET stops == e.requested_destinations \cup e.requests_going_up
                        \cup e.requests_going_down
        IN IF stops # {} THEN nearest(c, stops, tie) ELSE NONE
    ELSE IF e.directionality = UP THEN
        LET stops_up == floors_up(c, e.requested_destinations \cup e.requests_going_up)
        IN IF stops_up # {} THEN Min(stops_up) ELSE NONE
    ELSE
        LET stops_down == floors_down(c, e.requested_destinations \cup e.requests_going_down)
        IN IF stops_down # {} THEN Max(stops_down) ELSE NONE

\* _current_destination turning back at the closest call against the direction
\* of travel, not the farthest.
_current_destination_nearest_return(e, tie) ==
    LET c == e.current_floor IN
    IF e.directionality = NONE THEN
        LET stops == e.requested_destinations \cup e.requests_going_up
                        \cup e.requests_going_down
        IN IF stops # {} THEN nearest(c, stops, tie) ELSE NONE
    ELSE IF e.directionality = UP THEN
        LET stops_up == floors_up(c, e.requested_destinations \cup e.requests_going_up)
            returns_down == floors_up(c, e.requests_going_down)
        IN IF stops_up # {} THEN Min(stops_up)
           ELSE IF returns_down # {} THEN Min(returns_down)
           ELSE NONE
    ELSE
        LET stops_down == floors_down(c, e.requested_destinations \cup e.requests_going_down)
            returns_up == floors_down(c, e.requests_going_up)
        IN IF stops_down # {} THEN Max(stops_down)
           ELSE IF returns_up # {} THEN Max(returns_up)
           ELSE NONE

_current_destination(e, tie) ==
    LET c == e.current_floor IN
    IF e.directionality = NONE THEN
        LET stops == e.requested_destinations \cup e.requests_going_up
                        \cup e.requests_going_down
        IN IF stops # {} THEN nearest(c, stops, tie) ELSE NONE
    ELSE IF e.directionality = UP THEN
        LET stops_up == floors_up(c, e.requested_destinations \cup e.requests_going_up)
            returns_down == floors_up(c, e.requests_going_down)
        IN IF stops_up # {} THEN Min(stops_up)
           ELSE IF returns_down # {} THEN Max(returns_down)
           ELSE NONE
    ELSE
        LET stops_down == floors_down(c, e.requested_destinations \cup e.requests_going_down)
            returns_up == floors_down(c, e.requests_going_up)
        IN IF stops_down # {} THEN Max(stops_down)
           ELSE IF returns_up # {} THEN Min(returns_up)
           ELSE NONE

\* ------------------------------------------------------------ handlers
\* Each handler maps the elevator before the call to the elevator after it.

\* on_called ignoring a call against the committed direction.
on_called_committed(e, floor, direction) ==
    IF direction \notin {UP, DOWN} THEN [e EXCEPT !.raised = "ValueError"]
    ELSE IF e.directionality # NONE /\ e.directionality # direction THEN e
    ELSE IF direction = UP THEN [e EXCEPT !.requests_going_up = @ \cup {floor}]
    ELSE [e EXCEPT !.requests_going_down = @ \cup {floor}]

\* on_called taking whatever is not UP for DOWN.
on_called_else_down(e, floor, direction) ==
    IF direction = UP THEN
        [e EXCEPT !.requests_going_up = @ \cup {floor}]
    ELSE [e EXCEPT !.requests_going_down = @ \cup {floor}]

on_called(e, floor, direction) ==
    IF direction = UP THEN
        [e EXCEPT !.requests_going_up = @ \cup {floor}]
    ELSE IF direction = DOWN THEN
        [e EXCEPT !.requests_going_down = @ \cup {floor}]
    ELSE [e EXCEPT !.raised = "ValueError"]

\* on_floor_selected without the check against the committed direction.
on_floor_selected_any(e, floor) ==
    [e EXCEPT !.requested_destinations = @ \cup {floor}]

on_floor_selected(e, floor) ==
    IF e.directionality # NONE
         /\ e.directionality # _direction_to(e.current_floor, floor)
    THEN e
    ELSE [e EXCEPT !.requested_destinations = @ \cup {floor}]

\* on_floor_changed clearing the floor from the selections only.
on_floor_changed_selections_only(e, tie) ==
    LET destination == _current_destination(e, tie) IN
    IF destination = NONE THEN [e EXCEPT !.raised = "AssertionError"]
    ELSE IF e.current_floor = destination THEN
        LET stopped == [e EXCEPT
                !.motor_direction = NONE,
                !.requested_destinations = @ \ {e.current_floor}]
        IN IF _current_destination(stopped, tie) = NONE
           THEN [stopped EXCEPT !.directionality = NONE]
           ELSE stopped
    ELSE e

\* on_floor_changed keeping the commitment at a stop only for the selections
\* and the calls in the direction of travel ahead, not for a turn-back.
on_floor_changed_own_direction(e, tie) ==
    LET destination == _current_destination(e, tie) IN
    IF destination = NONE THEN [e EXCEPT !.raised = "AssertionError"]
    ELSE IF e.current_floor = destination THEN
        LET stopped == [e EXCEPT
                !.motor_direction = NONE,
                !.requested_destinations = @ \ {e.current_floor},
                !.requests_going_down = @ \ {e.current_floor},
                !.requests_going_up = @ \ {e.current_floor}]
        IN IF _current_destination_no_return(stopped, tie) = NONE
           THEN [stopped EXCEPT !.directionality = NONE]
           ELSE stopped
    ELSE e

\* on_floor_changed stopping at every floor for which anything is pending.
on_floor_changed_eager(e, tie) ==
    LET destination == _current_destination(e, tie)
        pending == e.requested_destinations \cup e.requests_going_up
                      \cup e.requests_going_down
    IN
    IF destination = NONE THEN [e EXCEPT !.raised = "AssertionError"]
    ELSE IF e.current_floor \in pending THEN
        LET stopped == [e EXCEPT
                !.motor_direction = NONE,
                !.requested_destinations = @ \ {e.current_floor},
                !.requests_going_down = @ \ {e.current_floor},
                !.requests_going_up = @ \ {e.current_floor}]
        IN IF _current_destination(stopped, tie) = NONE
           THEN [stopped EXCEPT !.directionality = NONE]
           ELSE stopped
    ELSE e

\* on_floor_changed that never releases the commitment at a stop, leaving the
\* release to on_ready.
on_floor_changed_keeping(e, tie) ==
    LET destination == _current_destination(e, tie) IN
    IF destination = NONE THEN [e EXCEPT !.raised = "AssertionError"]
    ELSE IF e.current_floor = destination THEN
        [e EXCEPT
            !.motor_direction = NONE,
            !.requested_destinations = @ \ {e.current_floor},
            !.requests_going_down = @ \ {e.current_floor},
            !.requests_going_up = @ \ {e.current_floor}]
    ELSE e

on_floor_changed(e, tie) ==
    LET destination == _current_destination(e, tie) IN
    IF destination = NONE THEN [e EXCEPT !.raised = "AssertionError"]
    ELSE IF e.current_floor = destination THEN
        LET stopped == [e EXCEPT
                !.motor_direction = NONE,
                !.requested_destinations = @ \ {e.current_floor},
                !.requests_going_down = @ \ {e.current_floor},
                !.requests_going_up = @ \ {e.current_floor}]
        IN IF _current_destination(stopped, tie) = NONE
           THEN [stopped EXCEPT !.directionality = NONE]
           ELSE stopped
    ELSE e

\* on_ready driving towards the closest request whatever the commitment.
on_ready_towards_nearest(e, tie) ==
    LET stops == e.requested_destinations \cup e.requests_going_up
                    \cup e.requests_going_down
        towards == _direction_to(e.current_floor, nearest(e.current_floor, stops, tie))
    IN IF stops = {} THEN [e EXCEPT !.directionality = NONE]
       ELSE IF e.directionality # NONE THEN [e EXCEPT !.motor_direction = towards]
       ELSE [e EXCEPT !.directionality = towards, !.motor_direction = towards]

\* on_ready serving a request at the floor the idle car is stopped at: the
\* floor is cleared from the three sets.
on_ready_serving(e, tie) ==
    LET here == e.current_floor
        pending == e.requested_destinations \cup e.requests_going_up
                      \cup e.requests_going_down
        destination == _current_destination(e, tie)
    IN IF e.directionality = NONE /\ here \in pending
       THEN [e EXCEPT !.requested_destinations = @ \ {here},
                      !.requests_going_up = @ \ {here},
                      !.requests_going_down = @ \ {here}]
       ELSE IF destination = NONE THEN [e EXCEPT !.directionality = NONE]
       ELSE IF e.directionality # NONE
            THEN [e EXCEPT !.motor_direction = e.directionality]
       ELSE [e EXCEPT
               !.directionality = _direction_to(e.current_floor, destination),
               !.motor_direction = _direction_to(e.current_floor, destination)]

\* on_ready starting the idle car without committing it to the direction.
on_ready_uncommitted(e, tie) ==
    LET destination == _current_destination(e, tie) IN
    IF destination = NONE THEN [e EXCEPT !.directionality = NONE]
    ELSE IF e.directionality # NONE
         THEN [e EXCEPT !.motor_direction = e.directionality]
    ELSE [e EXCEPT
            !.motor_direction = _direction_to(e.current_floor, destination)]

on_ready(e, tie) ==
    LET forget == _current_destination(e, tie) = NONE /\ e.directionality # NONE
        released == [e EXCEPT !.directionality = NONE]
        new_destination == _current_destination(released, tie)
        e1 == IF ~forget THEN e
              ELSE IF new_destination # NONE
                   THEN [released EXCEPT
                           !.directionality = _direction_to(e.current_floor, new_destination)]
                   ELSE released
        destination == _current_destination(e1, tie)
    IN IF destination # NONE THEN
           IF e1.directionality # NONE
           THEN [e1 EXCEPT !.motor_direction = e1.directionality]
           ELSE [e1 EXCEPT
                   !.directionality = _direction_to(e1.current_floor, destination),
                   !.motor_direction = _direction_to(e1.current_floor, destination)]
       ELSE [e1 EXCEPT !.directionality = NONE]

\* Elevator.step: move one floor and notify, or notify that the car is ready;
\* then the two range assertions (skipped when the handler raised).
step(e, tie) ==
    LET delta == IF e.motor_direction = UP THEN 1
                 ELSE IF e.motor_direction = DOWN THEN 0 - 1
                 ELSE 0
        moved == [e EXCEPT !.current_floor = @ + delta]
        after == IF delta # 0 THEN on_floor_changed(moved, tie) ELSE on_ready(e, tie)
    IN IF after.raised # "none" THEN after
       ELSE IF after.current_floor >= 1 /\ after.current_floor <= FLOOR_COUNT THEN after
       ELSE [after EXCEPT !.raised = "AssertionError"]

\* ------------------------------------------------------------ state machine
Pending(e) ==
    Cardinality(e.requested_destinations) + Cardinality(e.requests_going_up)
        + Cardinality(e.requests_going_down)

\* The variables take the values of the elevator e.
Becomes(e) ==
    /\ current_floor' = e.current_floor
    /\ motor_direction' = e.motor_direction
    /\ directionality' = e.directionality
    /\ requested_destinations' = e.requested_destinations
    /\ requests_going_up' = e.requests_going_up
    /\ requests_going_down' = e.requests_going_down
    /\ raised' = e.raised

\* The floor of the latest stop: set when the motor is switched off.
Stops(e) ==
    last_stop' = IF motor_direction # NONE /\ e.motor_direction = NONE
                 THEN e.current_floor ELSE last_stop

\* The direction of travel of a car that the event brought to a stop; the next
\* step, an on_ready, clears it.
Arrived(e, entry) ==
    arrived' = IF entry[1] # "step" THEN arrived
               ELSE IF motor_direction # NONE /\ e.motor_direction = NONE
                    THEN motor_direction
               ELSE NONE

\* Elevator.step appends every floor it moves to.
Visits(e) ==
    visited_floors' = IF e.current_floor # current_floor
                      THEN Append(visited_floors, e.current_floor)
                      ELSE visited_floors

\* Elevator.__init__ and ElevatorLogic.__init__, at the given starting floor
\* (the visit log apart, which starts as <<starting_floor>>).
Construct(starting_floor) ==
    /\ current_floor = starting_floor
    /\ motor_direction = NONE
    /\ directionality = NONE
    /\ requested_destinations = {}
    /\ requests_going_up = {}
    /\ requests_going_down = {}
    /\ raised = "none"
    /\ last_stop = NONE
    /\ arrived = NONE
    /\ last = <<"__init__">>

\* An event of the fuzz test turns the elevator into e and is logged as entry.
\* An exception that escaped an earlier call ended the run, except for the
\* ValueError of on_called, which its caller can catch.  The test never reads
\* the visit log and deletes it in the end: the log is not kept.
Event(after, entry, bound) ==
    /\ raised # "AssertionError"
    /\ \E e \in {after} :
         /\ Pending(e) <= bound
         /\ Becomes(e) /\ Stops(e) /\ Arrived(e, entry)
    /\ last' = entry
    /\ UNCHANGED <<visited_floors, test, pc, iter, closed>>

\* FuzzTestingTest.test_random_moves: any valid call, selection or step, in
\* any order, from any starting floor.
Init ==
    /\ \E starting_floor \in Floors : Construct(starting_floor)
    /\ visited_floors = <<>>
    /\ test = "test_random_moves"
    /\ pc = 1
    /\ iter = 0
    /\ closed = FALSE

Call ==
    \E floor \in Floors, direction \in Directions :
        Event(on_called(Elevator, floor, direction), <<"on_called">>, MaxPending)

SelectFloor ==
    \E floor \in Floors :
        Event(on_floor_selected(Elevator, floor), <<"on_floor_selected">>, MaxPending)

Step ==
    \E tie \in Directions :
        Event(step(Elevator, tie), <<"step">>, MaxPending)

Next == Call \/ SelectFloor \/ Step

Spec == Init /\ [][Next]_vars

\* The same events with their arguments logged, and on_called with any
\* direction a caller may pass.
LoggedCall ==
    \E floor \in Floors, direction \in AnyDirection :
        Event(on_called(Elevator, floor, direction),
              <<"on_called", floor, direction>>, MaxLogged)

LoggedSelectFloor ==
    \E floor \in Floors :
        Event(on_floor_selected(Elevator, floor),
              <<"on_floor_selected", floor>>, MaxLogged)

LoggedStep ==
    \E tie \in Directions :
        Event(step(Elevator, tie), <<"step">>, MaxLogged)

EventNext == LoggedCall \/ LoggedSelectFloor \/ LoggedStep

EventSpec == Init /\ [][EventNext]_vars

\* A closed request universe: requests are made until the universe is closed,
\* and the simulator keeps stepping.
OpenCall ==
    /\ ~closed
    /\ \E floor \in Floors, direction \in Directions :
         Event(on_called(Elevator, floor, direction), <<"on_called">>, MaxOpen)

OpenSelectFloor ==
    /\ ~closed
    /\ \E floor \in Floors :
         Event(on_floor_selected(Elevator, floor), <<"on_floor_selected">>, MaxOpen)

Close ==
    /\ ~closed
    /\ closed' = TRUE
    /\ UNCHANGED <<current_floor, motor_direction, directionality,
                   requested_destinations, requests_going_up, requests_going_down,
                   raised, visited_floors, last_stop, arrived, last, test, pc,
                   iter>>

LiveNext == OpenCall \/ OpenSelectFloor \/ Close \/ Step

\* ENABLED <<Step>>_vars as a state predicate: a step is possible and changes
\* the elevator or the log.
StepEnabled ==
    /\ raised # "AssertionError"
    /\ \E tie \in Directions :
         \E e \in {step(Elevator, tie)} :
            /\ Pending(e) <= MaxPending
            /\ \/ <<e.current_floor, e.motor_direction, e.directionality,
                    e.requested_destinations, e.requests_going_up,
                    e.requests_going_down, e.raised, <<"step">>>>
                    # <<current_floor, motor_direction, directionality,
                        requested_destinations, requests_going_up,
                        requests_going_down, raised, last>>
               \/ arrived # NONE

\* WF_vars(Step), its ENABLED written as StepEnabled: the simulator keeps
\* stepping.
SteppingOn == []<>(~StepEnabled) \/ []<><<Step>>_vars

LiveSpec == Init /\ [][LiveNext]_vars /\ SteppingOn /\ WF_vars(Close)

\* ------------------------------------------------------------ the tests
\* The commands of a test method, in order.
e_call(floor, direction) ==
    <<[op |-> "call", floor |-> floor, direction |-> direction]>>

e_select_floor(floor) == <<[op |-> "select_floor", floor |-> floor]>>

e_step == <<[op |-> "step"]>>

e_run_until_stopped == <<[op |-> "run_until_stopped"]>>

e_run_until_floor(floor) == <<[op |-> "run_until_floor", floor |-> floor]>>

new_Elevator(starting_floor) ==
    <<[op |-> "Elevator", starting_floor |-> starting_floor]>>

_assertVisited(floors) == <<[op |-> "_assertVisited", floors |-> floors]>>

assertVisits(floors) == e_run_until_stopped \o _assertVisited(floors)

setUp == _assertVisited(<<1>>)

tearDown == _assertVisited(<<>>) \o assertVisits(<<>>)

test_down_from_fifth ==
    setUp \o e_call(5, DOWN) \o assertVisits(<<2, 3, 4, 5>>)
      \o e_select_floor(1) \o e_call(3, DOWN)
      \o assertVisits(<<4, 3>>) \o assertVisits(<<2, 1>>) \o tearDown

test_same_direction ==
    setUp \o e_call(2, DOWN) \o e_select_floor(5)
      \o assertVisits(<<2, 3, 4, 5>>) \o assertVisits(<<4, 3, 2>>) \o tearDown

test_direction_override ==
    setUp \o e_select_floor(3) \o e_select_floor(5) \o assertVisits(<<2, 3>>)
      \o e_select_floor(2) \o assertVisits(<<4, 5>>) \o assertVisits(<<>>)
      \o e_select_floor(2) \o assertVisits(<<4, 3, 2>>) \o tearDown

test_en_passant ==
    setUp \o e_select_floor(6) \o e_run_until_floor(2) \o _assertVisited(<<2>>)
      \o e_select_floor(3) \o assertVisits(<<3>>)
      \o e_run_until_floor(4) \o _assertVisited(<<4>>)
      \o e_call(5, UP) \o assertVisits(<<5>>) \o assertVisits(<<6>>) \o tearDown

test_missed_call ==
    setUp \o e_select_floor(5) \o e_run_until_floor(2) \o _assertVisited(<<2>>)
      \o e_call(2, UP) \o e_step \o _assertVisited(<<3>>)
      \o e_select_floor(3) \o e_step \o _assertVisited(<<4>>)
      \o assertVisits(<<5>>) \o assertVisits(<<4, 3, 2>>) \o tearDown

test_called_while_moving ==
    setUp \o e_call(5, UP) \o e_run_until_floor(2) \o _assertVisited(<<2>>)
      \o e_call(3, UP) \o assertVisits(<<3>>) \o assertVisits(<<4, 5>>) \o tearDown

test_called_selected_same_floor ==
    setUp \o e_call(5, DOWN) \o e_select_floor(5) \o assertVisits(<<2, 3, 4, 5>>)
      \o e_select_floor(4) \o assertVisits(<<4>>) \o assertVisits(<<>>) \o tearDown

\* Decorated _clearElevator: no tearDown checks.
test_called_at_stopped_floor ==
    setUp \o e_call(3, UP) \o assertVisits(<<2, 3>>)
      \o e_call(3, UP) \o e_call(5, DOWN)
      \o assertVisits(<<4, 5>>) \o assertVisits(<<>>)

test_called_two_floors_above_below ==
    setUp \o new_Elevator(3) \o _assertVisited(<<3>>)
      \o e_call(2, UP) \o e_call(4, UP)
      \o assertVisits(<<2>>) \o assertVisits(<<3, 4>>) \o tearDown

\* Decorated _clearElevator: no tearDown checks.
test_called_two_floors_above_below_reverse_order ==
    setUp \o new_Elevator(3) \o _assertVisited(<<3>>)
      \o e_call(4, UP) \o e_call(2, UP)
      \o assertVisits(<<4>>) \o assertVisits(<<3, 2>>)

Tests ==
    {"test_down_from_fifth", "test_same_direction", "test_direction_override",
     "test_en_passant", "test_missed_call", "test_called_while_moving",
     "test_called_selected_same_floor", "test_called_at_stopped_floor",
     "test_called_two_floors_above_below",
     "test_called_two_floors_above_below_reverse_order"}

Script(t) ==
    CASE t = "test_down_from_fifth" -> test_down_from_fifth
      [] t = "test_same_direction" -> test_same_direction
      [] t = "test_direction_override" -> test_direction_override
      [] t = "test_en_passant" -> test_en_passant
      [] t = "test_missed_call" -> test_missed_call
      [] t = "test_called_while_moving" -> test_called_while_moving
      [] t = "test_called_selected_same_floor" -> test_called_selected_same_floor
      [] t = "test_called_at_stopped_floor" -> test_called_at_stopped_floor
      [] t = "test_called_two_floors_above_below" ->
             test_called_two_floors_above_below
      [] t = "test_called_two_floors_above_below_reverse_order" ->
             test_called_two_floors_above_below_reverse_order

\* BaseElevatorTest.setUp: a new elevator at the first floor.
TestInit ==
    /\ Construct(1)
    /\ visited_floors = <<1>>
    /\ test \in Tests
    /\ pc = 1
    /\ iter = 0
    /\ closed = FALSE

\* The command the test is at; an exception ends the test.
AtCommand(op) ==
    /\ raised = "none"
    /\ pc <= Len(Script(test))
    /\ Script(test)[pc].op = op

\* A command of the test turns the elevator into e.
Scripted(after, entry) ==
    /\ \E e \in {after} : Becomes(e) /\ Stops(e) /\ Arrived(e, entry) /\ Visits(e)
    /\ last' = entry
    /\ UNCHANGED <<test, closed>>

\* self.e = Elevator(ElevatorLogic(), starting_floor): the test goes on with a
\* new elevator at the starting floor, which its visit log begins with.
RunElevator ==
    /\ AtCommand("Elevator")
    /\ current_floor' = Script(test)[pc].starting_floor
    /\ visited_floors' = <<Script(test)[pc].starting_floor>>
    /\ motor_direction' = NONE
    /\ directionality' = NONE
    /\ requested_destinations' = {}
    /\ requests_going_up' = {}
    /\ requests_going_down' = {}
    /\ raised' = "none"
    /\ last_stop' = NONE
    /\ arrived' = NONE
    /\ last' = <<"__init__">>
    /\ pc' = pc + 1
    /\ UNCHANGED <<test, iter, closed>>

RunCall ==
    /\ AtCommand("call")
    /\ LET cmd == Script(test)[pc] IN
       Scripted(on_called(Elevator, cmd.floor, cmd.direction),
                <<"on_called", cmd.floor, cmd.direction>>)
    /\ pc' = pc + 1
    /\ UNCHANGED iter

RunSelectFloor ==
    /\ AtCommand("select_floor")
    /\ LET cmd == Script(test)[pc] IN
       Scripted(on_floor_selected(Elevator, cmd.floor),
                <<"on_floor_selected", cmd.floor>>)
    /\ pc' = pc + 1
    /\ UNCHANGED iter

RunStep ==
    /\ AtCommand("step")
    /\ \E tie \in Directions : Scripted(step(Elevator, tie), <<"step">>)
    /\ pc' = pc + 1
    /\ UNCHANGED iter

\* Elevator.run_until_stopped: one step, then steps while the motor runs.
RunUntilStopped ==
    /\ AtCommand("run_until_stopped")
    /\ \E tie \in Directions :
         LET e == step(Elevator, tie) IN
         /\ Scripted(e, <<"step">>)
         /\ pc' = IF e.raised = "none" /\ e.motor_direction = NONE THEN pc + 1 ELSE pc
    /\ UNCHANGED iter

\* Elevator.run_until_floor: at most RunLimit steps, until the floor is
\* reached; assert False when it was not.
RunUntilFloor ==
    /\ AtCommand("run_until_floor")
    /\ IF iter < RunLimit
       THEN \E tie \in Directions :
              LET e == step(Elevator, tie) IN
              /\ Scripted(e, <<"step">>)
              /\ IF e.raised = "none" /\ e.current_floor = Script(test)[pc].floor
                 THEN pc' = pc + 1 /\ iter' = 0
                 ELSE pc' = pc /\ iter' = iter + 1
       ELSE /\ raised' = "AssertionError"
            /\ UNCHANGED <<current_floor, motor_direction, directionality,
                           requested_destinations, requests_going_up,
                           requests_going_down, visited_floors, last_stop,
                           arrived, last, test, pc, iter, closed>>

\* BaseElevatorTest._assertVisited: compare the visit log, then clear it.
AssertVisited ==
    /\ AtCommand("_assertVisited")
    /\ IF visited_floors = Script(test)[pc].floors
       THEN raised' = "none" /\ visited_floors' = <<>> /\ pc' = pc + 1
       ELSE raised' = "AssertionError" /\ UNCHANGED <<visited_floors, pc>>
    /\ UNCHANGED <<current_floor, motor_direction, directionality,
                   requested_destinations, requests_going_up, requests_going_down,
                   last_stop, arrived, last, test, iter, closed>>

TestNext ==
    RunElevator \/ RunCall \/ RunSelectFloor \/ RunStep \/ RunUntilStopped
        \/ RunUntilFloor \/ AssertVisited

TestSpec == TestInit /\ [][TestNext]_vars

\* ------------------------------------------------------------ properties
AllStops == requested_destinations \cup requests_going_up \cup requests_going_down

Ahead(floors, direction, c) ==
    IF direction = UP THEN {f \in floors : f >= c} ELSE {f \in floors : f =< c}

\* A step that moved the car, and so called on_floor_changed at the new floor.
Arrives == current_floor' # current_floor

\* The hall calls of either direction.
Calls == requests_going_up \cup requests_going_down

\* The floors at or behind c for a car travelling in the direction.
Behind(floors, direction, c) ==
    IF direction = UP THEN {f \in floors : f =< c} ELSE {f \in floors : f >= c}

\* The car is stopped and uncommitted with a request pending at its own floor.
Stalled ==
    /\ motor_direction = NONE
    /\ directionality = NONE
    /\ current_floor \in AllStops

\* C1. No illegal state: whatever valid calls, selections and steps are made,
\* the car stays within floors 1..FLOOR_COUNT and neither the assertion of
\* on_floor_changed (a destination exists) nor those of step ever fail.
NoIllegalState == current_floor \in Floors /\ raised # "AssertionError"

\* The car left a stop at the top floor and has run down to the second floor,
\* on_floor_changed finding a destination at every floor on the way.
LongRunDown ==
    /\ last = <<"step">>
    /\ motor_direction = DOWN
    /\ last_stop = FLOOR_COUNT
    /\ current_floor = 2

\* C2. Eventual service: once no more requests are made, and with the
\* simulator stepping on, every pending request is removed in the end.
EventualService == closed ~> (AllStops = {})

\* C3. Direction monotonicity: a stop made while committed Up is at or above
\* the previous stop, a stop made while committed Down at or below it.
MonotoneStops ==
    [][(motor_direction # NONE /\ motor_direction' = NONE /\ last_stop # NONE)
         => /\ directionality = UP => current_floor' >= last_stop
            /\ directionality = DOWN => current_floor' =< last_stop]_vars

\* The car has just stopped on its way down and is still committed Down:
\* more is pending below.
StoppedOnTheWayDown ==
    /\ last = <<"step">>
    /\ directionality = DOWN
    /\ motor_direction = NONE
    /\ last_stop = current_floor
    /\ Ahead(AllStops, DOWN, current_floor) # {}

CallRecorded ==
    [][(last'[1] = "on_called" /\ last'[3] \in Directions)
         => LET floor == last'[2] IN
            /\ requests_going_up' =
                   IF last'[3] = UP THEN requests_going_up \cup {floor}
                   ELSE requests_going_up
            /\ requests_going_down' =
                   IF last'[3] = DOWN THEN requests_going_down \cup {floor}
                   ELSE requests_going_down
            /\ raised' = "none"
            /\ UNCHANGED <<requested_destinations, directionality,
                           motor_direction, current_floor>>]_vars

\* A call to go down was made at a floor the car, moving up and committed Up,
\* had already passed.
CalledBehindMovingCar ==
    /\ Len(last) = 3
    /\ last[1] = "on_called"
    /\ last[3] = DOWN
    /\ last[2] < current_floor
    /\ last[2] \in requests_going_down
    /\ directionality = UP
    /\ motor_direction = UP

\* C6. on_called with a direction that is neither Up nor Down raises
\* ValueError and leaves the request sets, directionality and the motor as
\* they were.
InvalidDirectionRejected ==
    [][(last'[1] = "on_called" /\ last'[3] \notin Directions)
         => /\ raised' = "ValueError"
            /\ UNCHANGED <<requested_destinations, requests_going_up,
                           requests_going_down, directionality, motor_direction,
                           current_floor>>]_vars

\* An invalid call was rejected while the car was moving with requests pending.
RejectedWhileMoving ==
    /\ raised = "ValueError"
    /\ Len(last) = 3
    /\ last[3] \notin Directions
    /\ motor_direction # NONE
    /\ AllStops # {}

PassesOppositeCall ==
    [][Arrives
         => LET c == current_floor' IN
            /\ (/\ directionality = UP
                /\ c \in requests_going_down
                /\ c \notin requested_destinations \cup requests_going_up
                /\ Ahead(requested_destinations \cup requests_going_up, UP, c) # {})
                 => motor_direction' = UP /\ c \in requests_going_down'
            /\ (/\ directionality = DOWN
                /\ c \in requests_going_up
                /\ c \notin requested_destinations \cup requests_going_down
                /\ Ahead(requested_destinations \cup requests_going_down, DOWN, c) # {})
                 => motor_direction' = DOWN /\ c \in requests_going_up']_vars

\* The car, on its way up since its last stop, has just passed a floor where
\* only a down-call is pending, a selection or up-call pending above.
PassedDownCall ==
    /\ last = <<"step">>
    /\ motor_direction = UP
    /\ directionality = UP
    /\ last_stop \notin {NONE, current_floor}
    /\ current_floor \in requests_going_down
    /\ current_floor \notin requested_destinations \cup requests_going_up
    /\ Ahead(requested_destinations \cup requests_going_up, UP, current_floor) # {}

\* C9. En passant: while committed Up (Down), the car arriving at a floor that
\* is selected or has an up-call (down-call) stops there and serves it.
StopsEnPassant ==
    [][Arrives
         => LET c == current_floor' IN
            (\/ directionality = UP
                  /\ c \in requested_destinations \cup requests_going_up
             \/ directionality = DOWN
                  /\ c \in requested_destinations \cup requests_going_down)
              => motor_direction' = NONE /\ c \notin AllStops']_vars

\* The car has just stopped on its way up and keeps its commitment: more
\* selections or up-calls are pending above.
StoppedOnTheWayUp ==
    /\ last = <<"step">>
    /\ motor_direction = NONE
    /\ directionality = UP
    /\ last_stop = current_floor
    /\ Ahead(requested_destinations \cup requests_going_up, UP, current_floor) # {}

\* C10. test_down_from_fifth: from floor 1, after call(5, Down) the run visits
\* 2,3,4,5; after select_floor(1) and call(3, Down) the next run visits 4,3
\* and stops at 3, and the run after it visits 2,1.
DownFromFifth ==
    test = "test_down_from_fifth"
      => /\ raised = "none"
         /\ pc = 4 => visited_floors = <<2, 3, 4, 5>> /\ current_floor = 5
         /\ pc = 8 => visited_floors = <<4, 3>> /\ current_floor = 3
         /\ pc = 10 => visited_floors = <<2, 1>> /\ current_floor = 1

\* The third run of the test has ended, at the first floor.
DownFromFifthRan ==
    /\ test = "test_down_from_fifth"
    /\ pc = 10
    /\ Script(test)[pc] = [op |-> "_assertVisited", floors |-> <<2, 1>>]
    /\ motor_direction = NONE

\* C11. Missed call: a hall call for the floor a committed, moving car is at or
\* has passed stays pending for as long as the car keeps its direction, and,
\* no further requests being made, the car comes back and stops at that floor.
MissedCallServed ==
    /\ [][\A f \in Floors :
            (/\ last' = <<"step">>
             /\ directionality \in Directions
             /\ directionality' = directionality
             /\ f \in Behind(Calls, directionality, current_floor))
              => /\ f \in requests_going_up => f \in requests_going_up'
                 /\ f \in requests_going_down => f \in requests_going_down']_vars
    /\ \A f \in Floors :
         (/\ closed
          /\ motor_direction \in Directions
          /\ motor_direction = directionality
          /\ f \in Behind(Calls, directionality, current_floor))
           ~> (current_floor = f /\ motor_direction = NONE /\ f \notin Calls)

\* The car on its way up was called, as the last request made, at a floor it
\* is at or has passed.
MissedWhileMoving ==
    /\ closed
    /\ last = <<"on_called">>
    /\ motor_direction = UP
    /\ directionality = UP
    /\ Cardinality(Calls) = 1
    /\ Behind(Calls, UP, current_floor) # {}

\* C12. Wait one stop when reversing: the car arriving on its way up at a
\* floor where a selection, an up-call and a down-call are all pending, with
\* nothing pending above, still considers itself going Up after the stop (so
\* that a selection below made before the next on_ready is ignored);
\* symmetrically on its way down.
WaitsOneStop ==
    [][Arrives
         => LET c == current_floor'
                all_three == requested_destinations \cap requests_going_up
                                \cap requests_going_down
            IN /\ (/\ directionality = UP
                   /\ c \in all_three
                   /\ Ahead(AllStops, UP, c) = {c})
                    => directionality' = UP
               /\ (/\ directionality = DOWN
                   /\ c \in all_three
                   /\ Ahead(AllStops, DOWN, c) = {c})
                    => directionality' = DOWN]_vars

\* C13. The car stopping at a floor because of an up-call there, nothing else
\* pending, considers itself going Up after the stop (so that a selection
\* below is ignored at that stop and one above accepted); symmetrically for a
\* down-call.
BoundByCall ==
    [][(Arrives /\ AllStops = {current_floor'})
         => LET c == current_floor' IN
            /\ c \in requests_going_up \ (requested_destinations \cup requests_going_down)
                 => directionality' = UP
            /\ c \in requests_going_down \ (requested_destinations \cup requests_going_up)
                 => directionality' = DOWN]_vars

\* C14. Idle and stopped at the third floor, called at two floors of the same
\* distance, one below and one above: the car goes first to the floor where it
\* was called first, and to the other afterwards
\* (test_called_two_floors_above_below and its reverse order).
CalledFirstServedFirst ==
    /\ test = "test_called_two_floors_above_below"
         => /\ pc = 7 => visited_floors = <<2>> /\ current_floor = 2
            /\ pc = 9 => visited_floors = <<3, 4>> /\ current_floor = 4
    /\ test = "test_called_two_floors_above_below_reverse_order"
         => /\ pc = 7 => visited_floors = <<4>> /\ current_floor = 4
            /\ pc = 9 => visited_floors = <<3, 2>> /\ current_floor = 2

\* C15. The car has stopped at the end of an upward run with a request pending
\* below, and before the next on_ready a hall call is made above: that
\* on_ready keeps the car going Up, towards the new call; symmetrically at the
\* end of a downward run.
KeepsGoingSameDirection ==
    [][(/\ last' = <<"step">>
        /\ motor_direction = NONE
        /\ directionality = NONE
        /\ arrived \in Directions
        /\ current_floor = last_stop
        /\ current_floor \notin AllStops)
         => LET c == current_floor
                back == IF arrived = UP THEN DOWN ELSE UP
            IN (/\ Ahead(AllStops, back, c) # {}
                /\ Ahead(Calls, arrived, c) # {}
                /\ Ahead(requested_destinations, arrived, c) = {})
                 => /\ motor_direction' = arrived
                    /\ directionality' = arrived]_vars

\* C16. Idle and stopped, the first floor selection sets the direction: a
\* second selection, of a floor on the opposite side and made before the car
\* departs, is ignored.
FirstSelectionDecides ==
    [][(/\ last'[1] = "on_floor_selected"
        /\ motor_direction = NONE
        /\ directionality = NONE
        /\ Calls = {}
        /\ Cardinality(requested_destinations) = 1)
         => LET floor == last'[2]
                c == current_floor
            IN (\/ Ahead(requested_destinations, UP, c + 1) # {} /\ floor < c
                \/ Ahead(requested_destinations, DOWN, c - 1) # {} /\ floor > c)
                 => UNCHANGED requested_destinations]_vars

PassingChangesNothing ==
    [][Arrives
         => LET at_floor == [Elevator EXCEPT !.current_floor = current_floor']
            IN (\A tie \in Directions :
                    _current_destination(at_floor, tie) # current_floor')
                 => /\ UNCHANGED <<requested_destinations, requests_going_up,
                                   requests_going_down, directionality,
                                   motor_direction>>
                    /\ motor_direction' = directionality'
                    /\ motor_direction' \in Directions
                    /\ raised' = "none"]_vars

\* The car has just passed, on its way down, a floor where an up-call is
\* pending, towards a stop further down.
PassedUpCall ==
    /\ last = <<"step">>
    /\ motor_direction = DOWN
    /\ directionality = DOWN
    /\ last_stop \notin {NONE, current_floor}
    /\ current_floor \in requests_going_up
    /\ Ahead(AllStops, DOWN, current_floor) # {current_floor}

\* C19. on_ready when idle: with directionality None and a request pending,
\* on_ready sets directionality and the motor to the direction from the
\* current floor towards a pending floor of least distance, and begins a trip;
\* with nothing pending it leaves the motor and directionality as they are.
\* on_ready never adds or removes a request.
ReadyWhenIdle ==
    [][(last' = <<"step">> /\ motor_direction = NONE)
         => /\ UNCHANGED <<requested_destinations, requests_going_up,
                           requests_going_down, current_floor>>
            /\ (directionality = NONE /\ AllStops # {})
                 => /\ \E f \in AllStops :
                         /\ \A g \in AllStops :
                              floor_distance(current_floor, f)
                                  <= floor_distance(current_floor, g)
                         /\ directionality' = _direction_to(current_floor, f)
                         /\ motor_direction' = _direction_to(current_floor, f)
                    /\ motor_direction' \in Directions
            /\ (directionality = NONE /\ AllStops = {})
                 => motor_direction' = NONE /\ directionality' = NONE]_vars

\* C20. Turn-back to the farthest call: while the car is committed Up with no
\* selection or up-call at or above its floor, its destination is the highest
\* down-call at or above it; arriving at a lower down-call it passes without
\* stopping, arriving at the highest it stops and serves it, and it stops at
\* the lower ones when it arrives there on its way down.  Symmetrically while
\* committed Down, with the lowest up-call.
TurnsBackAtFarthest ==
    [][/\ (/\ directionality = UP
           /\ Ahead(requested_destinations \cup requests_going_up, UP, current_floor) = {}
           /\ Ahead(requests_going_down, UP, current_floor) # {})
            => \A tie \in Directions :
                   _current_destination(Elevator, tie) = Max(requests_going_down)
       /\ (/\ directionality = DOWN
           /\ Ahead(requested_destinations \cup requests_going_down, DOWN, current_floor) = {}
           /\ Ahead(requests_going_up, DOWN, current_floor) # {})
            => \A tie \in Directions :
                   _current_destination(Elevator, tie) = Min(requests_going_up)
       /\ Arrives
            => LET c == current_floor'
                   passes == /\ motor_direction' = motor_direction
                             /\ UNCHANGED <<directionality, requested_destinations,
                                            requests_going_up, requests_going_down>>
                   stops == motor_direction' = NONE /\ c \notin AllStops'
               IN /\ (/\ directionality = UP
                      /\ Ahead(requested_destinations \cup requests_going_up, UP, c) = {}
                      /\ Ahead(requests_going_down, UP, c) # {})
                       => IF c = Max(requests_going_down) THEN stops ELSE passes
                  /\ (/\ directionality = DOWN
                      /\ Ahead(requested_destinations \cup requests_going_down, DOWN, c) = {}
                      /\ Ahead(requests_going_up, DOWN, c) # {})
                       => IF c = Min(requests_going_up) THEN stops ELSE passes
                  /\ (directionality = DOWN /\ c \in requests_going_down) => stops
                  /\ (directionality = UP /\ c \in requests_going_up) => stops]_vars

\* The car, on its way up to turn back at a down-call, has just passed a lower
\* floor where a down-call is pending too.
PassedLowerDownCall ==
    /\ last = <<"step">>
    /\ motor_direction = UP
    /\ directionality = UP
    /\ last_stop \notin {NONE, current_floor}
    /\ current_floor \in requests_going_down
    /\ Ahead(requested_destinations \cup requests_going_up, UP, current_floor) = {}
    /\ Max(requests_going_down) > current_floor

MotorFollowsCommitment ==
    motor_direction = NONE \/ motor_direction = directionality

\* The car, committed Down, is moving down, past a floor above which a request
\* is pending.
MovingDownCommitted ==
    /\ last = <<"step">>
    /\ motor_direction = DOWN
    /\ directionality = DOWN
    /\ last_stop \notin {NONE, current_floor}
    /\ Ahead(AllStops, UP, current_floor + 1) # {}

\* C24. A moving car has a target strictly ahead: between events, when the
\* motor command is Up some request set holds a floor strictly above the
\* current floor, when it is Down one strictly below; so the motor is never Up
\* at floor FLOOR_COUNT nor Down at floor 1.
TargetStrictlyAhead ==
    /\ motor_direction = UP
         => /\ \E f \in AllStops : f > current_floor
            /\ current_floor # FLOOR_COUNT
    /\ motor_direction = DOWN
         => /\ \E f \in AllStops : f < current_floor
            /\ current_floor # 1

\* The car has just passed the floor below the top one on its way up, its one
\* target at the top floor.
ApproachingTop ==
    /\ last = <<"step">>
    /\ motor_direction = UP
    /\ current_floor = FLOOR_COUNT - 1
    /\ last_stop \notin {NONE, current_floor}
    /\ Ahead(AllStops, UP, current_floor) = {FLOOR_COUNT}

====
